---- MODULE Spec2Model ----
(***************************************************************************)
(* License server: issue, activate and verify license keys bound to one    *)
(* device.  Two variants of the server exist in the repository:            *)
(*   - the document-store server (src/server.js, second program, lines     *)
(*     164-439): async handlers over a mongoose model, every store call an *)
(*     await, so other requests run between a findOne and the later save;  *)
(*   - the file-backed server (src/unnamed/part_000): synchronous handlers *)
(*     over one JSON file, read whole and written whole.                   *)
(* A behaviour runs one variant, chosen in Init.                           *)
(***************************************************************************)
EXTENDS Integers, FiniteSets, Sequences, TLC

\* ------------------------------------------------------------------ bounds
NumReqs == 2        \* requests that can be in flight at once
NumBodies == 2      \* distinct random bodies the key generator can draw
MaxClock == 2       \* the clock runs 1..MaxClock
MaxRecords == 2     \* records the store holds at most

Reqs == 1..NumReqs
Bodies == 1..NumBodies
Devices == {"D1", "D2"}

\* ------------------------------------------------------- program constants
NULL == "null"              \* deviceId: { default: null }
NoDate == 0                 \* activationDate: { type: Date }, no default
NoDevice == ""              \* a deviceId missing from the request body
NoKey == [prefix |-> <<>>, body |-> 0]      \* a missing licenseKey

VARIABLES
    variant,     \* "file" or "mongo": which server runs
    store,       \* licenses.json / the licenses collection: key -> record
    connected,   \* mongoose.connection.readyState === 1
    now,         \* Date.now()
    req,         \* per request in flight: position and locals
    last,        \* the response sent by the latest step, if it sent one
    acked,       \* history: the <<key, device>> an Activate answered 200 for
    generated    \* the latest string generateLicenseKey returned, with its prefix

vars == <<variant, store, connected, now, req, last, acked, generated>>

\* ------------------------------------------------------------------- keys
\* A key is PREFIX-<random body>.  The prefix is a tuple: <<"TEST">>,
\* <<"TEMP">>, or <<"TEST", t>> for 'TEST-' + Date.now().toString(36).
Key(prefix, body) == [prefix |-> prefix, body |-> body]

\* generateLicenseKey(prefix): the random draw is the parameter body.  Both
\* branches (crypto.randomBytes and the Math.random fallback) return the
\* prefix joined to a random string.
generateLicenseKey(prefix, body) == Key(prefix, body)

TestKeys == {Key(<<"TEST">>, b) : b \in Bodies}
TempKeys == {Key(<<"TEMP">>, b) : b \in Bodies}

\* The keys a client may send: any key of the store, any key Issue can hand
\* out (stored or temporary), and the missing key.
ClientKeys == DOMAIN store \cup TestKeys \cup TempKeys \cup {NoKey}
ClientDevices == Devices \cup {NoDevice}

\* ---------------------------------------------------------------- records
EmptyStore == [k \in {} |-> NULL]

\* licenses[licenseKey] = rec
Put(licenses, k, rec) ==
    [x \in DOMAIN licenses \cup {k} |-> IF x = k THEN rec ELSE licenses[x]]

\* A record as Issue creates it.
NewLicense(createdAt) ==
    [product |-> "test_product", activated |-> FALSE, deviceId |-> NULL,
     activationDate |-> NoDate, createdAt |-> createdAt]

\* Faulty variant: the first activation forgets to bind the device.
ActivateRecordDropDevice(rec, deviceId, date) ==
    [rec EXCEPT !.activated = TRUE, !.activationDate = date]

\* The three assignments of the first activation.
ActivateRecord(rec, deviceId, date) ==
    [rec EXCEPT !.activated = TRUE, !.deviceId = deviceId, !.activationDate = date]

\* -------------------------------------------------------------- responses
Json(code, body) == [code |-> code, body |-> body]
NoRes == Json(0, [none |-> TRUE])

ResInvalidInput == Json(400, [error |-> "License key and device ID are required"])
ResNotFound == Json(404, [error |-> "Invalid license key"])
ResConflict == Json(403, [error |-> "License key is already activated on another device"])
ResAlreadyActive ==
    Json(200, [status |-> "activated", message |-> "License is already activated for this device"])
ResActivated ==
    Json(200, [status |-> "activated", message |-> "License activated successfully"])
ResNotActivated == Json(403, [error |-> "License key is not activated"])
ResDeviceMismatch == Json(403, [error |-> "License is not activated for this device"])
ResValid == Json(200, [status |-> "valid", message |-> "License is valid"])
ResIssued(k) == Json(201, [licenseKey |-> k])
ResTemporary(k) == Json(200, [licenseKey |-> k, temporary |-> TRUE])
ResError(error) == Json(500, [error |-> error])

\* ---------------------------------------------------------------- requests
NoDoc == [licenseKey |-> NoKey]
Doc(k, rec) == [licenseKey |-> k, rec |-> rec]

Idle ==
    [pc |-> "idle", op |-> "none", licenseKey |-> NoKey, deviceId |-> NoDevice,
     license |-> NoDoc]

\* A request waiting on a store call.
Waiting(pc, op, k, d, license) ==
    [pc |-> pc, op |-> op, licenseKey |-> k, deviceId |-> d, license |-> license]

\* A new request takes the first slot no handler is running in.
Free(r) == req[r].pc = "idle" /\ \A q \in 1..(r - 1) : req[q].pc # "idle"

\* A request and the response it was sent.  readFailed: getLicenses logged
\* 'Error reading licenses' while serving it.
Done(op, k, d, res, readFailed) ==
    [op |-> op, licenseKey |-> k, deviceId |-> d, res |-> res, readFailed |-> readFailed]

NoLast == Done("none", NoKey, NoDevice, NoRes, FALSE)

\* generateLicenseKey has not been called.
NoGenerated == [prefix |-> <<>>, key |-> <<>>]

Init ==
    /\ variant \in {"file", "mongo"}
    /\ store = EmptyStore
    /\ connected = FALSE
    /\ now = 1
    /\ req = [r \in Reqs |-> Idle]
    /\ last = NoLast
    /\ acked = {}
    /\ generated = NoGenerated

\* ============================================================ file-backed
\* getLicenses(): the parsed file, or {} when the read or the parse throws.
getLicenses(readOk) == IF readOk THEN store ELSE EmptyStore

\* saveLicenses(licenses): the file after the call; false leaves it as it was.
saveLicenses(licenses, writeOk) == IF writeOk THEN licenses ELSE store

\* Faulty variant: the result of saveLicenses is ignored, 201 is sent anyway.
FileIssueHandlerIgnoresSave(licenses, licenseKey, writeOk) ==
    LET next == Put(licenses, licenseKey, NewLicense(now)) IN
    [res |-> ResIssued(licenseKey), file |-> saveLicenses(next, writeOk)]

\* GET /api/generate-test-license
FileIssueHandler(licenses, licenseKey, writeOk) ==
    LET next == Put(licenses, licenseKey, NewLicense(now)) IN
    IF writeOk
    THEN [res |-> ResIssued(licenseKey), file |-> saveLicenses(next, TRUE)]
    ELSE [res |-> ResError("Failed to generate license"), file |-> saveLicenses(next, FALSE)]

\* Faulty variant: a repeated activation by the bound device stamps the date again.
FileActivateHandlerRestamp(licenses, licenseKey, deviceId, writeOk) ==
    IF licenseKey = NoKey \/ deviceId = NoDevice
    THEN [res |-> ResInvalidInput, file |-> store]
    ELSE IF licenseKey \notin DOMAIN licenses
    THEN [res |-> ResNotFound, file |-> store]
    ELSE IF licenses[licenseKey].activated /\ licenses[licenseKey].deviceId # deviceId
    THEN [res |-> ResConflict, file |-> store]
    ELSE LET next == [licenses EXCEPT
                        ![licenseKey] = ActivateRecord(@, deviceId, now)] IN
         IF writeOk
         THEN [res |-> ResActivated, file |-> saveLicenses(next, TRUE)]
         ELSE [res |-> ResError("Failed to activate license"),
               file |-> saveLicenses(next, FALSE)]

\* Faulty variant: only the licenseKey is validated, an empty deviceId passes.
FileActivateHandlerNoDeviceValidation(licenses, licenseKey, deviceId, writeOk) ==
    IF licenseKey = NoKey
    THEN [res |-> ResInvalidInput, file |-> store]
    ELSE IF licenseKey \notin DOMAIN licenses
    THEN [res |-> ResNotFound, file |-> store]
    ELSE IF licenses[licenseKey].activated
    THEN IF licenses[licenseKey].deviceId # deviceId
         THEN [res |-> ResConflict, file |-> store]
         ELSE [res |-> ResAlreadyActive, file |-> store]
    ELSE LET next == [licenses EXCEPT
                        ![licenseKey] = ActivateRecord(@, deviceId, now)] IN
         IF writeOk
         THEN [res |-> ResActivated, file |-> saveLicenses(next, TRUE)]
         ELSE [res |-> ResError("Failed to activate license"),
               file |-> saveLicenses(next, FALSE)]

\* Faulty variant: an unknown key is created and activated instead of rejected.
FileActivateHandlerUpsert(licenses, licenseKey, deviceId, writeOk) ==
    IF licenseKey = NoKey \/ deviceId = NoDevice
    THEN [res |-> ResInvalidInput, file |-> store]
    ELSE IF licenseKey \in DOMAIN licenses /\ licenses[licenseKey].activated
    THEN IF licenses[licenseKey].deviceId # deviceId
         THEN [res |-> ResConflict, file |-> store]
         ELSE [res |-> ResAlreadyActive, file |-> store]
    ELSE LET next == Put(licenses, licenseKey,
                         ActivateRecord(NewLicense(now), deviceId, now)) IN
         IF writeOk
         THEN [res |-> ResActivated, file |-> saveLicenses(next, TRUE)]
         ELSE [res |-> ResError("Failed to activate license"),
               file |-> saveLicenses(next, FALSE)]

\* POST /api/activate-license
FileActivateHandler(licenses, licenseKey, deviceId, writeOk) ==
    IF licenseKey = NoKey \/ deviceId = NoDevice
    THEN [res |-> ResInvalidInput, file |-> store]
    ELSE IF licenseKey \notin DOMAIN licenses
    THEN [res |-> ResNotFound, file |-> store]
    ELSE IF licenses[licenseKey].activated
    THEN IF licenses[licenseKey].deviceId # deviceId
         THEN [res |-> ResConflict, file |-> store]
         ELSE [res |-> ResAlreadyActive, file |-> store]
    ELSE LET next == [licenses EXCEPT
                        ![licenseKey] = ActivateRecord(@, deviceId, now)] IN
         IF writeOk
         THEN [res |-> ResActivated, file |-> saveLicenses(next, TRUE)]
         ELSE [res |-> ResError("Failed to activate license"),
               file |-> saveLicenses(next, FALSE)]

\* Faulty variant: verifying a pending key activates it, as the activate handler does.
FileVerifyHandlerActivates(licenses, licenseKey, deviceId) ==
    IF licenseKey = NoKey \/ deviceId = NoDevice
    THEN [res |-> ResInvalidInput, file |-> store]
    ELSE IF licenseKey \notin DOMAIN licenses
    THEN [res |-> ResNotFound, file |-> store]
    ELSE IF ~licenses[licenseKey].activated
    THEN [res |-> ResNotActivated,
          file |-> saveLicenses([licenses EXCEPT
                     ![licenseKey] = ActivateRecord(@, deviceId, now)], TRUE)]
    ELSE IF licenses[licenseKey].deviceId # deviceId
    THEN [res |-> ResDeviceMismatch, file |-> store]
    ELSE [res |-> ResValid, file |-> store]

\* POST /api/verify-license
FileVerifyHandler(licenses, licenseKey, deviceId) ==
    IF licenseKey = NoKey \/ deviceId = NoDevice
    THEN [res |-> ResInvalidInput, file |-> store]
    ELSE IF licenseKey \notin DOMAIN licenses
    THEN [res |-> ResNotFound, file |-> store]
    ELSE IF ~licenses[licenseKey].activated
    THEN [res |-> ResNotActivated, file |-> store]
    ELSE IF licenses[licenseKey].deviceId # deviceId
    THEN [res |-> ResDeviceMismatch, file |-> store]
    ELSE [res |-> ResValid, file |-> store]

\* The handler of request r sends its response and returns.
Respond(r, op, k, d, res, readFailed) ==
    /\ req' = [req EXCEPT ![r] = Idle]
    /\ last' = Done(op, k, d, res, readFailed)
    /\ acked' = IF op = "activate" /\ res.code = 200 THEN acked \cup {<<k, d>>} ELSE acked
    /\ generated' = generated

\* The handler of request r suspends on a store call.
Await(r, waiting) ==
    /\ req' = [req EXCEPT ![r] = waiting]
    /\ last' = NoLast
    /\ acked' = acked
    /\ generated' = generated

FileIssue(r) ==
    /\ variant = "file"
    /\ Free(r)
    /\ \E body \in Bodies, readOk \in BOOLEAN, writeOk \in BOOLEAN :
        LET licenseKey == generateLicenseKey(<<"TEST">>, body)
            licenses == getLicenses(readOk)
            out == FileIssueHandler(licenses, licenseKey, writeOk)
        IN  /\ Cardinality(DOMAIN out.file) <= MaxRecords
            /\ store' = out.file
            /\ Respond(r, "issue", NoKey, NoDevice, out.res, ~readOk)
    /\ UNCHANGED <<variant, connected, now>>

FileActivate(r) ==
    /\ variant = "file"
    /\ Free(r)
    /\ \E k \in ClientKeys, d \in ClientDevices, readOk \in BOOLEAN, writeOk \in BOOLEAN :
        LET early == k = NoKey \/ d = NoDevice
            licenses == IF early THEN store ELSE getLicenses(readOk)
            out == FileActivateHandler(licenses, k, d, writeOk)
        IN  /\ early => readOk
            /\ (out.res # ResActivated /\ out.res.code # 500) => writeOk
            /\ store' = out.file
            /\ Respond(r, "activate", k, d, out.res, ~readOk)
    /\ UNCHANGED <<variant, connected, now>>

FileVerify(r) ==
    /\ variant = "file"
    /\ Free(r)
    /\ \E k \in ClientKeys, d \in ClientDevices, readOk \in BOOLEAN :
        LET early == k = NoKey \/ d = NoDevice
            licenses == IF early THEN store ELSE getLicenses(readOk)
            out == FileVerifyHandler(licenses, k, d)
        IN  /\ early => readOk
            /\ store' = out.file
            /\ Respond(r, "verify", k, d, out.res, ~readOk)
    /\ UNCHANGED <<variant, connected, now>>

\* GET /api/admin/licenses: the listing is whatever getLicenses returned.
FileAdminHandler(licenses) == Json(200, [licenses |-> licenses])

FileAdmin(r) ==
    /\ variant = "file"
    /\ Free(r)
    /\ \E readOk \in BOOLEAN :
        /\ store' = store
        /\ Respond(r, "admin", NoKey, NoDevice, FileAdminHandler(getLicenses(readOk)), ~readOk)
    /\ UNCHANGED <<variant, connected, now>>

\* ========================================================= document store
\* A store call succeeds only while the connection is up; it can reject at
\* any time (a buffered command timing out, a network error).

\* License.findOne({ licenseKey })
findOne(licenseKey) ==
    IF licenseKey \in DOMAIN store THEN Doc(licenseKey, store[licenseKey]) ELSE NoDoc

\* Faulty variant: the save replaces the collection by the saved document.
saveDocumentReplacesAll(license) ==
    Put(EmptyStore, license.licenseKey, license.rec)

\* license.save() of a document findOne returned: the modified paths are
\* written to the record with that key.
saveDocument(license) ==
    [store EXCEPT ![license.licenseKey] =
        ActivateRecord(@, license.rec.deviceId, license.rec.activationDate)]

\* license.save() of a new License: an insert; the unique index on
\* licenseKey rejects a key that is already there (code 11000).
DuplicateKey(license) == license.licenseKey \in DOMAIN store

insertDocument(license) == Put(store, license.licenseKey, license.rec)

\* Issue requests that will still insert a record.
Inserting == {r \in Reqs : req[r].pc \in {"save", "retry"} /\ req[r].op = "issue"}

\* GET /api/generate-test-license, up to the first await.
MongoIssue(r) ==
    /\ variant = "mongo"
    /\ Free(r)
    /\ \E body \in Bodies :
        IF ~connected
        THEN LET tempKey == generateLicenseKey(<<"TEMP">>, body) IN
             Respond(r, "issue", NoKey, NoDevice, ResTemporary(tempKey), FALSE)
        ELSE LET licenseKey == generateLicenseKey(<<"TEST">>, body) IN
             /\ Cardinality(DOMAIN store) + Cardinality(Inserting) < MaxRecords
             /\ Await(r, Waiting("save", "issue", NoKey, NoDevice,
                                 Doc(licenseKey, NewLicense(now))))
    /\ UNCHANGED <<variant, store, connected, now>>

\* await license.save() returns or throws.
MongoIssueSave(r) ==
    /\ variant = "mongo"
    /\ req[r].pc = "save" /\ req[r].op = "issue"
    /\ LET license == req[r].license IN
        \/ /\ connected /\ ~DuplicateKey(license)
           /\ store' = insertDocument(license)
           /\ Respond(r, "issue", NoKey, NoDevice, ResIssued(license.licenseKey), FALSE)
        \/ /\ connected /\ DuplicateKey(license)
           /\ \E body \in Bodies :
                LET newKey == generateLicenseKey(<<"TEST", now>>, body) IN
                Await(r, Waiting("retry", "issue", NoKey, NoDevice,
                                 Doc(newKey, NewLicense(now))))
           /\ store' = store
        \/ /\ Respond(r, "issue", NoKey, NoDevice, ResError("Failed to save license"), FALSE)
           /\ store' = store
    /\ UNCHANGED <<variant, connected, now>>

\* Faulty variant: a second failure draws another key and saves again
\* instead of answering.
MongoIssueRetryAgain(r) ==
    /\ variant = "mongo"
    /\ req[r].pc = "retry" /\ req[r].op = "issue"
    /\ LET newLicense == req[r].license IN
        \/ /\ connected /\ ~DuplicateKey(newLicense)
           /\ store' = insertDocument(newLicense)
           /\ Respond(r, "issue", NoKey, NoDevice, ResIssued(newLicense.licenseKey), FALSE)
        \/ /\ \E body \in Bodies :
                LET newKey == generateLicenseKey(<<"TEST", now>>, body) IN
                Await(r, Waiting("save", "issue", NoKey, NoDevice,
                                 Doc(newKey, NewLicense(now))))
           /\ store' = store
    /\ UNCHANGED <<variant, connected, now>>

\* await newLicense.save() returns or throws to the outer catch.
MongoIssueRetry(r) ==
    /\ variant = "mongo"
    /\ req[r].pc = "retry" /\ req[r].op = "issue"
    /\ LET newLicense == req[r].license IN
        \/ /\ connected /\ ~DuplicateKey(newLicense)
           /\ store' = insertDocument(newLicense)
           /\ Respond(r, "issue", NoKey, NoDevice, ResIssued(newLicense.licenseKey), FALSE)
        \/ /\ Respond(r, "issue", NoKey, NoDevice,
                      ResError("Failed to generate test license"), FALSE)
           /\ store' = store
    /\ UNCHANGED <<variant, connected, now>>

\* Faulty variant: an activated key is not compared with the requesting device.
MongoActivateHandlerNoDeviceCheck(license, deviceId) ==
    IF license = NoDoc
    THEN [res |-> ResNotFound, license |-> NoDoc]
    ELSE IF license.rec.activated
    THEN [res |-> ResAlreadyActive, license |-> NoDoc]
    ELSE [res |-> NoRes,
          license |-> Doc(license.licenseKey, ActivateRecord(license.rec, deviceId, now))]

\* POST /api/activate-license from the findOne result to the save call:
\* the response sent, or the document to save.
MongoActivateHandler(license, deviceId) ==
    IF license = NoDoc
    THEN [res |-> ResNotFound, license |-> NoDoc]
    ELSE IF license.rec.activated
    THEN IF license.rec.deviceId # deviceId
         THEN [res |-> ResConflict, license |-> NoDoc]
         ELSE [res |-> ResAlreadyActive, license |-> NoDoc]
    ELSE [res |-> NoRes,
          license |-> Doc(license.licenseKey, ActivateRecord(license.rec, deviceId, now))]

\* POST /api/activate-license, up to the await of license.save().
MongoActivate(r) ==
    /\ variant = "mongo"
    /\ Free(r)
    /\ \E k \in ClientKeys, d \in ClientDevices :
        IF k = NoKey \/ d = NoDevice
        THEN Respond(r, "activate", k, d, ResInvalidInput, FALSE)
        ELSE \/ /\ connected
                /\ LET out == MongoActivateHandler(findOne(k), d) IN
                   IF out.res = NoRes
                   THEN Await(r, Waiting("save", "activate", k, d, out.license))
                   ELSE Respond(r, "activate", k, d, out.res, FALSE)
             \/ Respond(r, "activate", k, d, ResError("Failed to activate license"), FALSE)
    /\ UNCHANGED <<variant, store, connected, now>>

\* await license.save() returns or throws.
MongoActivateSave(r) ==
    /\ variant = "mongo"
    /\ req[r].pc = "save" /\ req[r].op = "activate"
    /\ \/ /\ connected
          /\ store' = saveDocument(req[r].license)
          /\ Respond(r, "activate", req[r].licenseKey, req[r].deviceId, ResActivated, FALSE)
       \/ /\ store' = store
          /\ Respond(r, "activate", req[r].licenseKey, req[r].deviceId,
                     ResError("Failed to activate license"), FALSE)
    /\ UNCHANGED <<variant, connected, now>>

\* Faulty variant: a key the collection does not hold is taken on trust.
MongoVerifyHandlerTrustsUnknown(license, deviceId) ==
    IF license = NoDoc
    THEN [res |-> ResValid, store |-> store]
    ELSE IF ~license.rec.activated
    THEN [res |-> ResNotActivated, store |-> store]
    ELSE IF license.rec.deviceId # deviceId
    THEN [res |-> ResDeviceMismatch, store |-> store]
    ELSE [res |-> ResValid, store |-> store]

\* Faulty variant: the activated check is missing, the device comparison decides.
MongoVerifyHandlerNoActivatedCheck(license, deviceId) ==
    IF license = NoDoc
    THEN [res |-> ResNotFound, store |-> store]
    ELSE IF license.rec.deviceId # deviceId
    THEN [res |-> ResDeviceMismatch, store |-> store]
    ELSE [res |-> ResValid, store |-> store]

\* POST /api/verify-license after the findOne: the response and the store.
MongoVerifyHandler(license, deviceId) ==
    IF license = NoDoc
    THEN [res |-> ResNotFound, store |-> store]
    ELSE IF ~license.rec.activated
    THEN [res |-> ResNotActivated, store |-> store]
    ELSE IF license.rec.deviceId # deviceId
    THEN [res |-> ResDeviceMismatch, store |-> store]
    ELSE [res |-> ResValid, store |-> store]

MongoVerify(r) ==
    /\ variant = "mongo"
    /\ Free(r)
    /\ \E k \in ClientKeys, d \in ClientDevices :
        IF k = NoKey \/ d = NoDevice
        THEN /\ Respond(r, "verify", k, d, ResInvalidInput, FALSE)
             /\ store' = store
        ELSE \/ /\ connected
                /\ LET out == MongoVerifyHandler(findOne(k), d) IN
                    /\ Respond(r, "verify", k, d, out.res, FALSE)
                    /\ store' = out.store
             \/ /\ Respond(r, "verify", k, d, ResError("Failed to verify license"), FALSE)
                /\ store' = store
    /\ UNCHANGED <<variant, connected, now>>

\* mongoose.connect resolves; the connection drops.
Connect ==
    /\ variant = "mongo"
    /\ ~connected
    /\ connected' = TRUE
    /\ last' = NoLast
    /\ UNCHANGED <<variant, store, now, req, acked, generated>>

Disconnect ==
    /\ variant = "mongo"
    /\ connected
    /\ connected' = FALSE
    /\ last' = NoLast
    /\ UNCHANGED <<variant, store, now, req, acked, generated>>

\* Time passes.
Tick ==
    /\ now < MaxClock
    /\ now' = now + 1
    /\ last' = NoLast
    /\ UNCHANGED <<variant, store, connected, req, acked, generated>>

\* ========================================================== key strings
\* generateLicenseKey at the level of characters.  A string is a sequence
\* of one-character strings.
KeyBytes == 12              \* crypto.randomBytes(12)
SectionLen == 8             \* randomHex.substr(_, 8)
Radix == 36                 \* toString(36)
SeedLen == 2                \* the random bytes repeat a seed of this length
RandomBits == 4             \* Math.random() is a multiple of 2^-RandomBits

Digits == <<"0", "1", "2", "3", "4", "5", "6", "7", "8", "9">>
Lower == <<"a", "b", "c", "d", "e", "f", "g", "h", "i", "j", "k", "l", "m",
           "n", "o", "p", "q", "r", "s", "t", "u", "v", "w", "x", "y", "z">>
Upper == <<"A", "B", "C", "D", "E", "F", "G", "H", "I", "J", "K", "L", "M",
           "N", "O", "P", "Q", "R", "S", "T", "U", "V", "W", "X", "Y", "Z">>
DigitChars == Digits \o Lower       \* the digit characters of toString(radix)

ByteSamples == {0, 9, 10, 175, 255}

Min(a, b) == IF a < b THEN a ELSE b
Max(a, b) == IF a < b THEN b ELSE a

\* String.prototype.toUpperCase
toUpperCase(s) ==
    [i \in DOMAIN s |->
        IF \E j \in DOMAIN Lower : Lower[j] = s[i]
        THEN Upper[CHOOSE j \in DOMAIN Lower : Lower[j] = s[i]]
        ELSE s[i]]

\* String.prototype.substr(start, length), start >= 0
substr(s, start, length) == SubSeq(s, Min(start, Len(s)) + 1, Min(start + length, Len(s)))

\* String.prototype.substring(start, end): both are clamped to 0..length and
\* swapped when start > end.
substring(s, start, end) ==
    LET a == Max(0, Min(start, Len(s)))
        b == Max(0, Min(end, Len(s)))
    IN  SubSeq(s, Min(a, b) + 1, Max(a, b))

\* Buffer.prototype.toString('hex'): two lowercase digits per byte.
RECURSIVE toStringHex(_)
toStringHex(bytes) ==
    IF bytes = <<>> THEN <<>>
    ELSE <<DigitChars[(Head(bytes) \div 16) + 1], DigitChars[(Head(bytes) % 16) + 1]>>
         \o toStringHex(Tail(bytes))

\* Number.prototype.toString(radix) of an integer n >= 0.
RECURSIVE integerToString(_, _)
integerToString(n, radix) ==
    IF n < radix THEN <<DigitChars[n + 1]>>
    ELSE integerToString(n \div radix, radix) \o <<DigitChars[(n % radix) + 1]>>

\* The digits after the point of num / den < 1 in the radix; the expansion of
\* a multiple of 2^-RandomBits ends.
RECURSIVE fractionDigits(_, _, _)
fractionDigits(num, den, radix) ==
    IF num = 0 THEN <<>>
    ELSE <<DigitChars[((num * radix) \div den) + 1]>>
         \o fractionDigits((num * radix) % den, den, radix)

\* Number.prototype.toString(radix) of num / den in [0, 1).
fractionToString(num, den, radix) ==
    IF num = 0 THEN <<"0">>
    ELSE <<"0", ".">> \o fractionDigits(num, den, radix)

\* What generateLicenseKey draws: crypto.randomBytes(12) returns bytes or
\* throws; in the catch, Math.random() returns random / 2^RandomBits.
Entropy ==
    {[ok |-> TRUE, randomBytes |-> [i \in 1..KeyBytes |-> seed[((i - 1) % SeedLen) + 1]],
      random |-> 0] : seed \in [1..SeedLen -> ByteSamples]}
    \cup {[ok |-> FALSE, randomBytes |-> <<>>, random |-> n] : n \in 0..(2^RandomBits - 1)}

\* generateLicenseKey(prefix), returning the string.
generateLicenseKeyString(prefix, entropy) ==
    IF entropy.ok
    THEN LET randomHex == toUpperCase(toStringHex(entropy.randomBytes))
             section1 == substr(randomHex, 0, SectionLen)
             section2 == substr(randomHex, SectionLen, SectionLen)
             section3 == substr(randomHex, 2 * SectionLen, SectionLen)
         IN  prefix \o <<"-">> \o section1 \o <<"-">> \o section2 \o <<"-">> \o section3
    ELSE prefix \o <<"-">>
         \o toUpperCase(substring(fractionToString(entropy.random, 2^RandomBits, Radix), 2, 10))

\* The prefixes of the call sites: 'TEST' in both servers; in the document
\* store server also 'TEMP' and, for the retry,
\* 'TEST-' + Date.now().toString(36).substring(-4).
CallPrefixes ==
    IF variant = "file"
    THEN {<<"T", "E", "S", "T">>}
    ELSE {<<"T", "E", "S", "T">>, <<"T", "E", "M", "P">>,
          <<"T", "E", "S", "T", "-">>
              \o substring(integerToString(now, Radix), -4, Len(integerToString(now, Radix)))}

\* A call of generateLicenseKey.
GenerateKey ==
    /\ \E prefix \in CallPrefixes, entropy \in Entropy :
        generated' = [prefix |-> prefix, key |-> generateLicenseKeyString(prefix, entropy)]
    /\ UNCHANGED <<variant, store, connected, now, req, last, acked>>

NextKeyGen == GenerateKey \/ Tick

SpecKeyGen == Init /\ [][NextKeyGen]_vars

\* ================================================================= claims
\* This step sent the response to a request of kind op.
Answered(op) == last' # NoLast /\ last'.op = op

\* This step served a whole request of kind op: the handler ran from its
\* entry to its response, and its store read saw the store of this step.
Served(op) == Answered(op) /\ req' = req

\* No store call failed while the answered request was served: failures are
\* the 500 responses and the read error getLicenses logs.
StoreWorked == last'.res.code # 500 /\ ~last'.readFailed

Activated(licenses, k) == k \in DOMAIN licenses /\ licenses[k].activated
Pending(licenses, k) == k \in DOMAIN licenses /\ ~licenses[k].activated
BoundTo(licenses, k, d) == Activated(licenses, k) /\ licenses[k].deviceId = d

\* C1: in the document-store variant, of the Activate requests for one key
\* with different devices only one is answered with a success; the code
\* answers both with 'License activated successfully'.
C1_OneActivationSucceeds ==
    variant = "mongo" =>
        \A p \in acked, q \in acked : p[1] = q[1] => p[2] = q[2]

\* C2: once a record is activated and bound to a device, its deviceId is the
\* same in every later state.
C2_DeviceBindingPermanent ==
    [][\A k \in DOMAIN store :
        Activated(store, k) =>
            (k \in DOMAIN store' /\ store'[k].deviceId = store[k].deviceId)]_vars

\* C3: in every persisted state, a record's deviceId is unset exactly when
\* the record is not activated.
C3_DeviceIdIffActivated ==
    \A k \in DOMAIN store : (store[k].deviceId = NULL) <=> ~store[k].activated

C3_Witness ==
    \E k1 \in DOMAIN store, k2 \in DOMAIN store :
        /\ store[k1].activated /\ store[k1].deviceId = "D2"
        /\ ~store[k2].activated /\ store[k2].deviceId = NULL

\* C4: a date is written to the activationDate of a key only by the step
\* that takes the key from Pending to Activated, never to a key that is
\* already activated.
C4_ActivationDateSetOnce ==
    [][\A k \in DOMAIN store \cap DOMAIN store' :
        (store'[k].activationDate \notin {NoDate, store[k].activationDate})
            => (Pending(store, k) /\ Activated(store', k))]_vars

\* C5: Activate(K, D) of a key that is activated and bound to D answers 200
\* with status "activated" and leaves the whole store as it was.
C5_ActivateIdempotent ==
    [][\A k \in DOMAIN store :
        (/\ Activated(store, k)
         /\ Served("activate")
         /\ last'.licenseKey = k
         /\ last'.deviceId = store[k].deviceId)
        => /\ store' = store
           /\ StoreWorked => (last'.res.code = 200 /\ last'.res.body.status = "activated")]_vars

C5_Witness ==
    /\ last.op = "activate"
    /\ last.res = ResAlreadyActive
    /\ BoundTo(store, last.licenseKey, last.deviceId)

\* C6: Activate(K, D2) of a key that is activated and bound to another
\* device D1 answers the 403 device conflict and leaves the store as it was.
C6_ActivateOtherDeviceConflict ==
    [][\A k \in DOMAIN store :
        (/\ Activated(store, k)
         /\ Served("activate")
         /\ last'.licenseKey = k
         /\ last'.deviceId \in Devices \ {store[k].deviceId})
        => /\ store' = store
           /\ StoreWorked => last'.res = ResConflict]_vars

C6_Witness ==
    /\ last.op = "activate"
    /\ last.res = ResConflict
    /\ Activated(store, last.licenseKey)
    /\ store[last.licenseKey].deviceId # last.deviceId

C8_VerifyReadOnly ==
    [][Answered("verify") => store' = store]_vars

C8_Witness ==
    /\ last.op = "verify"
    /\ last.res = ResValid
    /\ store # EmptyStore

C10_IssueSurvivesCollision ==
    [][(Answered("issue") /\ last'.res.code = 201 /\ StoreWorked)
        => LET k == last'.res.body.licenseKey IN
           /\ k \notin DOMAIN store
           /\ Pending(store', k)
           /\ \A x \in DOMAIN store : x \in DOMAIN store' /\ store'[x] = store[x]]_vars

\* C11: every request served while a store read or write failed is answered
\* 500; no failure is answered with a success or a 404/403.
C11_StoreFailureIs500 ==
    [][(last' # NoLast /\ last'.readFailed) => last'.res.code = 500]_vars

\* C12: Activate and Verify answer 400 to a request whose licenseKey or
\* deviceId is missing, in every state of the store and of the connection,
\* without reading the store and leaving it as it was.
C12_MissingFieldsRejected ==
    [][((Answered("activate") \/ Answered("verify"))
            /\ (last'.licenseKey = NoKey \/ last'.deviceId = NoDevice))
        => /\ last'.res = ResInvalidInput
           /\ ~last'.readFailed
           /\ req' = req
           /\ store' = store]_vars

C12_Witness ==
    /\ last.op = "activate"
    /\ last.licenseKey \in DOMAIN store
    /\ last.deviceId = NoDevice
    /\ last.res = ResInvalidInput
    /\ ~store[last.licenseKey].activated

\* C13: an Issue served while the store is not connected answers 200 with a
\* TEMP- key and temporary: true and leaves the store alone; no TEMP- key is
\* ever a key of the store; and no Activate or Verify of a TEMP- key is
\* answered 200, whatever was issued, connected or disconnected before.
IsTemporaryKey(k) == k.prefix = <<"TEMP">>

C13_TemporaryKeyNeverAccepted ==
    [][/\ (variant = "mongo" /\ ~connected /\ Served("issue"))
            => /\ last'.res.code = 200
               /\ last'.res = ResTemporary(last'.res.body.licenseKey)
               /\ IsTemporaryKey(last'.res.body.licenseKey)
               /\ store' = store
       /\ (Answered("issue") /\ last'.res.code # 500
                /\ IsTemporaryKey(last'.res.body.licenseKey))
            => (last'.res.code = 200 /\ last'.res.body.temporary)
       /\ \A k \in DOMAIN store' : ~IsTemporaryKey(k)
       /\ ((Answered("activate") \/ Answered("verify")) /\ IsTemporaryKey(last'.licenseKey))
            => last'.res.code # 200]_vars

\* Witness: with the store connected again and holding the device's activated
\* license, Verify of a TEMP- key for that device was answered 404.
C13_Witness ==
    /\ variant = "mongo" /\ connected
    /\ last.op = "verify" /\ IsTemporaryKey(last.licenseKey)
    /\ last.res = ResNotFound
    /\ \E k \in DOMAIN store : BoundTo(store, k, last.deviceId)

\* C14: a record that exists in the store exists in every later state.
C14_RecordsNeverLost ==
    [][\A k \in DOMAIN store : k \in DOMAIN store']_vars

\* C15: a record that is activated is activated in every later state.
C15_NoBackwardTransition ==
    [][\A k \in DOMAIN store :
        store[k].activated => (k \in DOMAIN store' /\ store'[k].activated)]_vars

\* C16: when Issue answers 201 with key K, the store holds a record for K
\* that is pending: not activated, no deviceId, no activationDate.
C16_IssuedKeyIsPersisted ==
    [][(Answered("issue") /\ last'.res.code = 201)
        => LET k == last'.res.body.licenseKey IN
           /\ k \in DOMAIN store'
           /\ ~store'[k].activated
           /\ store'[k].deviceId = NULL
           /\ store'[k].activationDate = NoDate]_vars

C16_Witness ==
    /\ last.op = "issue"
    /\ last.res.code = 201
    /\ last.res.body.licenseKey \in DOMAIN store
    /\ Cardinality(DOMAIN store) = 2

\* C17: an Activate answered while K is still pending, no store call having
\* failed, answers 200 'activated' and leaves K activated, bound to the
\* device of the request, with an activationDate, and every other record as
\* it was.
C17_FirstActivation ==
    [][\A k \in DOMAIN store :
        (/\ Pending(store, k)
         /\ Answered("activate")
         /\ last'.licenseKey = k
         /\ last'.deviceId # NoDevice
         /\ StoreWorked)
        => /\ last'.res = ResActivated
           /\ DOMAIN store' = DOMAIN store
           /\ store'[k].activated
           /\ store'[k].deviceId = last'.deviceId
           /\ store'[k].activationDate \in 1..now
           /\ store'[k].createdAt = store[k].createdAt
           /\ \A x \in DOMAIN store \ {k} : store'[x] = store[x]]_vars

C17_Witness ==
    /\ last.op = "activate"
    /\ last.res = ResActivated
    /\ BoundTo(store, last.licenseKey, last.deviceId)
    /\ \E x \in DOMAIN store : x # last.licenseKey

\* C18: every string generateLicenseKey returns is its prefix followed by
\* exactly three segments of 8 characters of 0-9A-F, each after a hyphen.
HexUpper == {"0", "1", "2", "3", "4", "5", "6", "7", "8", "9", "A", "B", "C", "D", "E", "F"}

HasKeyFormat(prefix, key) ==
    /\ Len(key) = Len(prefix) + 3 * (SectionLen + 1)
    /\ SubSeq(key, 1, Len(prefix)) = prefix
    /\ \A j \in 0..2 :
        LET at == Len(prefix) + j * (SectionLen + 1) IN
        /\ key[at + 1] = "-"
        /\ \A i \in 2..(SectionLen + 1) : key[at + i] \in HexUpper

C18_KeyFormat == generated # NoGenerated => HasKeyFormat(generated.prefix, generated.key)

\* C19: in the document-store variant, once Activate(K, D) was answered 200,
\* every later Verify(K, D) whose read succeeds answers Valid.
C19_AckedActivationStaysValid ==
    [][(/\ variant = "mongo"
        /\ Served("verify")
        /\ <<last'.licenseKey, last'.deviceId>> \in acked
        /\ StoreWorked)
        => last'.res = ResValid]_vars

\* C20: in the file-backed variant no two devices are answered a successful
\* activation of one key, and no request's write discards a record or an
\* activation that another request wrote to the file.
C20_FileHandlersAtomic ==
    [][variant = "file" =>
        /\ \A p \in acked', q \in acked' : p[1] = q[1] => p[2] = q[2]
        /\ \A k \in DOMAIN store :
            /\ k \in DOMAIN store'
            /\ store[k].activated => store'[k] = store[k]]_vars

\* C21: every Issue, Activate and Verify request is answered exactly once.
\* A step changes at most one request.  A handler that suspends on a store
\* call has sent nothing; a suspended request only moves on by being
\* answered (a status code, the request's own kind) and returning, or, for
\* Issue after a duplicate-key error, once to the retried save.  The retried
\* save ends the request: 201, or 500 with the store unchanged.  Every
\* response is the answer of a request that ends in that step.  And a
\* suspended request is always answered eventually.
InFlight(r) == req[r].pc # "idle"

StatusCodes == {200, 201, 400, 403, 404, 500}

C21_ExactlyOneResponse ==
    /\ [][/\ Cardinality({r \in Reqs : req'[r] # req[r]}) <= 1
          /\ \A r \in Reqs :
                /\ (~InFlight(r) /\ req'[r] # req[r]) => last' = NoLast
                /\ (InFlight(r) /\ req'[r] # req[r])
                    => \/ /\ req'[r] = Idle
                          /\ last'.op = req[r].op
                          /\ last'.res.code \in StatusCodes
                       \/ /\ req[r].op = "issue" /\ req[r].pc = "save"
                          /\ req'[r].pc = "retry"
                          /\ last' = NoLast
                /\ (req[r].pc = "retry" /\ req'[r] # req[r])
                    => /\ req'[r] = Idle
                       /\ last'.res.code \in {201, 500}
                       /\ last'.res.code = 500 => store' = store
          /\ last' # NoLast
                => /\ last'.op \in {"issue", "activate", "verify", "admin"}
                   /\ last'.res.code \in StatusCodes
                   /\ \/ req' = req
                      \/ \E r \in Reqs : InFlight(r) /\ req'[r] = Idle]_vars
    /\ \A r \in Reqs : InFlight(r) ~> ~InFlight(r)

\* Witness: the retried save of an Issue failed and the request was answered
\* 500 'Failed to generate test license'; the store holds only the record
\* the first key collided with, and no request is left suspended.
C21_Witness ==
    /\ last.op = "issue"
    /\ last.res = ResError("Failed to generate test license")
    /\ Cardinality(DOMAIN store) = 1
    /\ \A r \in Reqs : ~InFlight(r)

Next ==
    \/ \E r \in Reqs : FileIssue(r)
    \/ \E r \in Reqs : FileActivate(r)
    \/ \E r \in Reqs : FileVerify(r)
    \/ \E r \in Reqs : FileAdmin(r)
    \/ \E r \in Reqs : MongoIssue(r)
    \/ \E r \in Reqs : MongoIssueSave(r)
    \/ \E r \in Reqs : MongoIssueRetry(r)
    \/ \E r \in Reqs : MongoActivate(r)
    \/ \E r \in Reqs : MongoActivateSave(r)
    \/ \E r \in Reqs : MongoVerify(r)
    \/ Connect
    \/ Disconnect
    \/ Tick

Spec == Init /\ [][Next]_vars

\* The requests with the clock standing still: the time of day decides only
\* the dates written and the prefix of a retried key, not which request is
\* suspended or answered.
NextLive ==
    \/ \E r \in Reqs : FileIssue(r)
    \/ \E r \in Reqs : FileActivate(r)
    \/ \E r \in Reqs : FileVerify(r)
    \/ \E r \in Reqs : FileAdmin(r)
    \/ \E r \in Reqs : MongoIssue(r)
    \/ \E r \in Reqs : MongoIssueSave(r)
    \/ \E r \in Reqs : MongoIssueRetry(r)
    \/ \E r \in Reqs : MongoActivate(r)
    \/ \E r \in Reqs : MongoActivateSave(r)
    \/ \E r \in Reqs : MongoVerify(r)
    \/ Connect
    \/ Disconnect

\* An awaited store call returns or throws: the handler waiting on it resumes.
SpecLive ==
    /\ Init /\ [][NextLive]_vars
    /\ \A r \in Reqs : /\ WF_vars(MongoIssueSave(r))
                       /\ WF_vars(MongoIssueRetry(r))
                       /\ WF_vars(MongoActivateSave(r))
====
